---- MODULE Spec2Model ----
(***************************************************************************)
(* Model of the mcpd client core:                                          *)
(*   - MCPDManager (daemon supervisor): startDaemon / stopDaemon /         *)
(*     getStatus, with the child process, its event listeners and the      *)
(*     timers of one start as interleaved steps;                           *)
(*   - McpdBridgeServer (stdio bridge): getAllTools with its toolCache,    *)
(*     parseToolName;                                                      *)
(*   - MCPHTTPEndpoint (MCP over HTTP): listTools, callTool;               *)
(*   - MCPDHTTPGateway: REST routes behind authenticate, WebSocket.        *)
(* The specifications share the variables: Spec (supervisor), FairSpec     *)
(* (the starts, under fairness), SpecBridge (tool listings), SpecNames     *)
(* (name encode / decode), SpecCall (tools/call), SpecWs (WebSocket),      *)
(* SpecRest (REST routes), SpecBinary (resolution of the daemon binary),   *)
(* SpecConfig (add / remove a server and the restart) and SpecHttp         *)
(* (outbound requests to the daemon).                                      *)
(***************************************************************************)
EXTENDS Integers, Sequences, FiniteSets, TLC

VARIABLES
    daemonProcess,  \* MCPDManager.daemonProcess: the owned ChildProcess or Null
    proc,           \* the child process spawned by each startDaemon call
    start,          \* per startDaemon call: position, promise, closure variables, timers
    stop,           \* per stopDaemon call: position, listened process, promise
    api,            \* who answers http://localhost:8090/api/v1 (environment)
    toolCache,      \* McpdBridgeServer.toolCache
    backend,        \* the daemon's servers and their tools (environment of the bridge)
    refresh,        \* per getAllTools call: position, loop state, accumulated tools
    cfg,            \* bridge configuration: mode, targetServer, useNamespacing
    nm,             \* name round trip: inputs, external name, decoded result
    call,           \* tools/call sessions of the bridge and of the MCP-over-HTTP endpoint
    ws,             \* one WebSocket connection of the HTTP gateway
    rest,           \* REST side of the HTTP gateway: rate limiter, request in flight
    bin,            \* MCPDManager.mcpdPath and the binaries on the file system
    conf,           \* the configuration file and the add/remove operation on it
    http            \* outbound HTTP requests to the daemon, per client

vars == <<daemonProcess, proc, start, stop, api, toolCache, backend, refresh, cfg, nm,
          call, ws, rest, bin, conf, http>>

----------------------------------------------------------------------------
(* Bounds *)

NumCalls == 2
NumStops == 1
MaxChunks == 1
MaxSettleCalls == 2

Calls == 1..NumCalls
Stops == 1..NumStops

----------------------------------------------------------------------------
(* Supervisor: values *)

Null == 0            \* daemonProcess = null
NoPid == 0           \* pid: undefined
NoDaemon == 0        \* nothing answers on port 8090
Foreign == -1        \* a daemon not spawned by this supervisor answers both endpoints
ForeignLegacy == -2  \* a foreign daemon that answers /servers but not /health/servers
NullCode == -1       \* exit code null (terminated by a signal)
NoCode == -1         \* pkill has not exited
PkillErrored == -2   \* pkill emitted 'error': it could not be executed

ExitCodes == {0, 1, NullCode}
PkillCodes == {0, 1, 2}

NoStatus == [running |-> FALSE, pid |-> NoPid]

NoProc == [st |-> "none", sig |-> FALSE, chunks |-> 0]

IdleStart ==
    [pc |-> "idle", promise |-> "none", status |-> NoStatus, settleCalls |-> 0,
     hasResolved |-> FALSE, errorOutput |-> {}, abs |-> "off", delay |-> "off",
     rArmed |-> 0, rAwait |-> 0]

IdleStop == [pc |-> "idle", target |-> Null, promise |-> "none", code |-> NoCode]

ResolvedKinds == {"AlreadyRunning", "OwnedStatus", "Healthy", "ConnectedExisting"}
RejectedKinds == {"BinaryNotFound", "SpawnThrew", "SpawnError", "ExitedNonZero",
                  "PortConflict", "NotRunningAfter5s", "StartTimeout"}

\* ChildProcess.pid: undefined when the spawn failed
PidOf(p) ==
    IF p = Null THEN NoPid
    ELSE IF proc[p].st \in {"failed", "errored"} THEN NoPid ELSE p

\* apiClient.get(path): TRUE when the request succeeds
ApiGet(path) ==
    CASE path = "/health/servers" -> api \notin {NoDaemon, ForeignLegacy}
      [] path = "/servers" -> api # NoDaemon

\* mutant of GetStatus: the pid is remembered from the last spawn instead of
\* being read from the handle
GetStatusStalePid ==
    [running |-> api # NoDaemon,
     pid |-> IF api # NoDaemon /\ \E c \in Calls : proc[c].st \in {"running", "exited"}
             THEN CHOOSE c \in Calls : proc[c].st \in {"running", "exited"}
             ELSE NoPid]

\* getStatus(): /health/servers, on failure /servers, on failure not running
GetStatus ==
    IF ApiGet("/health/servers")
        THEN [running |-> TRUE, pid |-> PidOf(daemonProcess)]
    ELSE IF ApiGet("/servers")
        THEN [running |-> TRUE, pid |-> PidOf(daemonProcess)]
    ELSE [running |-> FALSE, pid |-> NoPid]

\* resolve(...) / reject(...) on the promise of a call: a settled promise ignores it.
\* settleCalls counts the calls of resolve and reject, up to MaxSettleCalls.
Settle(r, kind, st) ==
    [r EXCEPT !.settleCalls = IF @ < MaxSettleCalls THEN @ + 1 ELSE @,
              !.promise = IF r.promise = "pending" THEN kind ELSE @,
              !.status = IF r.promise = "pending" THEN st ELSE @]

\* clearTimeout(absoluteTimeout)
ClearAbs(r) == [r EXCEPT !.abs = IF @ = "armed" THEN "cleared" ELSE @]

\* ChildProcess.kill(): the signal is sent to a live process (the exit event comes
\* later); nothing is sent when the spawn failed or the process has exited
Kill(pr, p) ==
    IF p # Null /\ pr[p].st = "running" THEN [pr EXCEPT ![p].sig = TRUE] ELSE pr

----------------------------------------------------------------------------
(* Supervisor: the daemon binary *)

\* lines 732-736: the well-known system install paths, in the order tried
SystemPaths == <<"/opt/homebrew/bin/mcpd", "/usr/local/bin/mcpd", "/usr/bin/mcpd">>

\* lines 776-798: the places of the bundled binary, in the order tried
BundledPaths == <<"dist/resources/mcpd", "resourcesPath/resources/mcpd",
                  "resourcesPath/mcpd", "resourcesPath/app.asar/dist/resources/mcpd">>

BareName == "mcpd"
NoPath == ""         \* getBundledMcpdPath() returned null

AllPaths == {SystemPaths[i] : i \in DOMAIN SystemPaths}
                \cup {BundledPaths[i] : i \in DOMAIN BundledPaths}

\* the first path of a list that is in the set of existing files
FirstExisting(paths, files) ==
    LET hits == {i \in DOMAIN paths : paths[i] \in files} IN
    IF hits = {} THEN NoPath
    ELSE paths[CHOOSE i \in hits : \A j \in hits : i <= j]

\* getBundledMcpdPath(), lines 760-815
GetBundledMcpdPath(files) == FirstExisting(BundledPaths, files)

\* mutant of FindMcpdPath: the bundled binary is preferred to a system install
FindMcpdPathBundledFirst(files) ==
    IF GetBundledMcpdPath(files) # NoPath THEN GetBundledMcpdPath(files)
    ELSE IF FirstExisting(SystemPaths, files) # NoPath
    THEN FirstExisting(SystemPaths, files)
    ELSE BareName

\* findMcpdPath(), lines 730-758
FindMcpdPath(files) ==
    IF FirstExisting(SystemPaths, files) # NoPath
    THEN FirstExisting(SystemPaths, files)
    ELSE IF GetBundledMcpdPath(files) # NoPath /\ GetBundledMcpdPath(files) \in files
    THEN GetBundledMcpdPath(files)
    ELSE BareName

\* the constructor (line 196) resolves mcpdPath among the files it sees
Constructed(files) == [seen |-> files, mcpdPath |-> FindMcpdPath(files), removed |-> FALSE]

\* fs.existsSync(path) now: the resolved binary may have been removed since
ExistsSync(path) == path \in bin.seen /\ ~(bin.removed /\ path = bin.mcpdPath)

\* line 231: this.mcpdPath !== 'mcpd' && !fs.existsSync(this.mcpdPath)
BinaryMissing == bin.mcpdPath # BareName /\ ~ExistsSync(bin.mcpdPath)

\* a system install, still there or removed after the supervisor was constructed
InstalledBin == Constructed({SystemPaths[2]})
RemovedBin == [InstalledBin EXCEPT !.removed = TRUE]

----------------------------------------------------------------------------
(* Supervisor: startDaemon *)

SpawnOutcomes == {"missing", "throws", "failed", "ok"}

\* lines 231-240: the check of the binary decides whether spawn() is reached
BinaryAllows(how) == (how = "missing") <=> BinaryMissing

\* mutant of ShortCircuit: the result of the first probe is ignored
ShortCircuitNever(status) == FALSE

\* line 216: if (currentStatus.running) return currentStatus
ShortCircuit(status) == status.running

\* line 222: if (this.daemonProcess) return this.getStatus()
OwnsProcess == daemonProcess # Null

\* startDaemon() is called: runs up to the await of getStatus() at line 212
StartCall(c) ==
    /\ start[c].pc = "idle"
    /\ \A d \in Calls : d < c => start[d].pc # "idle"
    /\ start' = [start EXCEPT ![c].pc = "probe", ![c].promise = "pending"]
    /\ UNCHANGED <<daemonProcess, proc, stop, api, toolCache, backend, refresh, cfg, nm, call, ws, rest, bin, conf, http>>

\* the promise executor, lines 226-423: validate the binary, spawn, register the
\* listeners and arm the two timers. how is what the file system and spawn() do.
Executor(c, how) ==
    CASE how = "missing" ->
            /\ start' = [start EXCEPT ![c] =
                   Settle([start[c] EXCEPT !.pc = "returned"], "BinaryNotFound", NoStatus)]
            /\ UNCHANGED <<daemonProcess, proc>>
      [] how = "throws" ->
            /\ start' = [start EXCEPT ![c] =
                   Settle([start[c] EXCEPT !.pc = "returned"], "SpawnThrew", NoStatus)]
            /\ UNCHANGED <<daemonProcess, proc>>
      [] how \in {"failed", "ok"} ->
            /\ daemonProcess' = c
            /\ proc' = [proc EXCEPT ![c] =
                   [st |-> IF how = "ok" THEN "running" ELSE "failed",
                    sig |-> FALSE, chunks |-> 0]]
            /\ start' = [start EXCEPT ![c].pc = "spawned", ![c].abs = "armed",
                                      ![c].delay = "armed"]

\* the continuation of startDaemon() after the first getStatus(), lines 212-226
StartResume(c) ==
    /\ start[c].pc = "probe"
    /\ LET currentStatus == GetStatus IN
       IF ShortCircuit(currentStatus)
       THEN /\ start' = [start EXCEPT ![c] =
                   Settle([start[c] EXCEPT !.pc = "returned"], "AlreadyRunning",
                          currentStatus)]
            /\ UNCHANGED <<daemonProcess, proc>>
       ELSE IF OwnsProcess
       THEN /\ start' = [start EXCEPT ![c].pc = "probe2"]
            /\ UNCHANGED <<daemonProcess, proc>>
       ELSE \E how \in SpawnOutcomes : BinaryAllows(how) /\ Executor(c, how)
    /\ UNCHANGED <<stop, api, toolCache, backend, refresh, cfg, nm, call, ws, rest, bin, conf, http>>

\* line 223: the getStatus() returned when a process is already owned completes
StartOwnedStatus(c) ==
    /\ start[c].pc = "probe2"
    /\ start' = [start EXCEPT ![c] =
           Settle([start[c] EXCEPT !.pc = "returned"], "OwnedStatus", GetStatus)]
    /\ UNCHANGED <<daemonProcess, proc, stop, api, toolCache, backend, refresh, cfg, nm, call, ws, rest, bin, conf, http>>

\* mutant of AbsGuard: the absolute timeout defers to captured stderr output, as
\* the delayed probe does
AbsGuardQuiet(r) == ~r.hasResolved /\ r.errorOutput = {}

\* line 323: the guard of the absolute timeout
AbsGuard(r) == ~r.hasResolved

\* lines 322-329: the 8 s timer fires (after the 5 s timer armed with it)
AbsoluteTimeout(c) ==
    /\ start[c].abs = "armed"
    /\ start[c].delay # "armed"
    /\ start' = [start EXCEPT ![c] =
           IF AbsGuard(start[c])
           THEN Settle([start[c] EXCEPT !.abs = "fired", !.hasResolved = TRUE],
                       "StartTimeout", NoStatus)
           ELSE [start[c] EXCEPT !.abs = "fired"]]
    /\ UNCHANGED <<daemonProcess, proc, stop, api, toolCache, backend, refresh, cfg, nm, call, ws, rest, bin, conf, http>>

\* lines 331-339: the 'error' event of the spawned process (the spawn failed)
ProcError(c) ==
    /\ proc[c].st = "failed"
    /\ proc' = [proc EXCEPT ![c].st = "errored"]
    /\ daemonProcess' = Null
    /\ start' = [start EXCEPT ![c] =
           IF ~start[c].hasResolved
           THEN Settle(ClearAbs([start[c] EXCEPT !.hasResolved = TRUE]),
                       "SpawnError", NoStatus)
           ELSE start[c]]
    /\ UNCHANGED <<stop, api, toolCache, backend, refresh, cfg, nm, call, ws, rest, bin, conf, http>>

StderrKinds == {"conflict", "other"}

\* line 351: output.includes('address already in use')
IsPortConflict(kind) == kind = "conflict"

\* lines 345-384: a chunk of stderr of the process spawned by call c. The streams
\* may still deliver data after the 'exit' event.
StderrData(c, kind) ==
    /\ proc[c].st \in {"running", "exited"}
    /\ proc[c].chunks < MaxChunks
    /\ IF IsPortConflict(kind)
       THEN /\ proc' = [Kill(proc, daemonProcess) EXCEPT ![c].chunks = @ + 1]
            /\ daemonProcess' = Null
            /\ start' = [start EXCEPT ![c].errorOutput = @ \cup {kind},
                                      ![c].rArmed = @ + 1]
       ELSE /\ proc' = [proc EXCEPT ![c].chunks = @ + 1]
            /\ start' = [start EXCEPT ![c].errorOutput = @ \cup {kind}]
            /\ UNCHANGED daemonProcess
    /\ UNCHANGED <<stop, api, toolCache, backend, refresh, cfg, nm, call, ws, rest, bin, conf, http>>

\* lines 356-357: a 500 ms reconnect timer fires and awaits getStatus()
ReconnectFire(c) ==
    /\ start[c].rArmed > 0
    /\ start' = [start EXCEPT ![c].rArmed = @ - 1,
                              ![c].rAwait = IF start[c].hasResolved THEN @ ELSE @ + 1]
    /\ UNCHANGED <<daemonProcess, proc, stop, api, toolCache, backend, refresh, cfg, nm, call, ws, rest, bin, conf, http>>

\* lines 359-381: the getStatus() of a reconnect timer completes (it never throws)
ReconnectDone(c) ==
    /\ start[c].rAwait > 0
    /\ LET status == GetStatus
           r == [start[c] EXCEPT !.rAwait = @ - 1] IN
       start' = [start EXCEPT ![c] =
           IF r.hasResolved THEN r
           ELSE IF status.running
           THEN Settle(ClearAbs([r EXCEPT !.hasResolved = TRUE]),
                       "ConnectedExisting", status)
           ELSE Settle(ClearAbs([r EXCEPT !.hasResolved = TRUE]),
                       "PortConflict", NoStatus)]
    /\ UNCHANGED <<daemonProcess, proc, stop, api, toolCache, backend, refresh, cfg, nm, call, ws, rest, bin, conf, http>>

\* mutant of OnExit: a process terminated by a signal (code null) rejects too
OnExitAnyCode(r, code) ==
    IF "conflict" \in r.errorOutput THEN r
    ELSE IF code # 0 THEN Settle(r, "ExitedNonZero", NoStatus)
    ELSE r

\* lines 386-398: the start's 'exit' listener, applied to the closure of call c
OnExit(r, code) ==
    IF "conflict" \in r.errorOutput THEN r
    ELSE IF code # 0 /\ code # NullCode THEN Settle(r, "ExitedNonZero", NoStatus)
    ELSE r

\* mutant of StopOnExit: stopDaemon() resolves at the exit of any process
StopOnExitAny(sr, p) ==
    IF sr.pc = "waitExit"
    THEN [sr EXCEPT !.pc = "returned", !.promise = "resolved"]
    ELSE sr

\* lines 430-433: the 'exit' listener stopDaemon() registered on its process
StopOnExit(sr, p) ==
    IF sr.pc = "waitExit" /\ sr.target = p
    THEN [sr EXCEPT !.pc = "returned", !.promise = "resolved"]
    ELSE sr

\* the 'exit' event of the process spawned by call c: the listeners run in the
\* order of their registration (startDaemon's, then stopDaemon's)
ProcExit(c, code) ==
    /\ proc[c].st = "running"
    /\ proc' = [proc EXCEPT ![c].st = "exited"]
    /\ daemonProcess' = Null
    /\ start' = [start EXCEPT ![c] = OnExit(start[c], code)]
    /\ stop' = [s \in Stops |-> StopOnExit(stop[s], c)]
    /\ api' = IF api = c THEN NoDaemon ELSE api
    /\ UNCHANGED <<toolCache, backend, refresh, cfg, nm, call, ws, rest, bin, conf, http>>

\* lines 401-402: the 5 s timer fires
DelayedProbeFire(c) ==
    /\ start[c].delay = "armed"
    /\ start' = [start EXCEPT ![c].delay =
           IF start[c].hasResolved THEN "done" ELSE "awaiting"]
    /\ UNCHANGED <<daemonProcess, proc, stop, api, toolCache, backend, refresh, cfg, nm, call, ws, rest, bin, conf, http>>

\* lines 404-422: the getStatus() of the delayed probe completes
DelayedProbeDone(c) ==
    /\ start[c].delay = "awaiting"
    /\ LET status == GetStatus
           r == [start[c] EXCEPT !.delay = "done"] IN
       start' = [start EXCEPT ![c] =
           IF status.running
           THEN Settle(ClearAbs([r EXCEPT !.hasResolved = TRUE]), "Healthy", status)
           ELSE IF r.errorOutput = {}
           THEN Settle(ClearAbs([r EXCEPT !.hasResolved = TRUE]),
                       "NotRunningAfter5s", NoStatus)
           ELSE r]
    /\ UNCHANGED <<daemonProcess, proc, stop, api, toolCache, backend, refresh, cfg, nm, call, ws, rest, bin, conf, http>>

----------------------------------------------------------------------------
(* Supervisor: stopDaemon *)

\* mutant of PkillOk: "no process matched" is taken for a failure
PkillOkStrict(code) == code = 0

\* line 443: pkill returns 0 if processes were found and killed, 1 if none found
PkillOk(code) == code = 0 \/ code = 1

\* lines 427-440: the synchronous part of stopDaemon()
StopDaemon(s) ==
    /\ stop[s].pc = "idle"
    /\ \A t \in Stops : t < s => stop[t].pc # "idle"
    /\ IF daemonProcess # Null
       THEN /\ stop' = [stop EXCEPT ![s] =
                   [pc |-> "waitExit", target |-> daemonProcess, promise |-> "pending",
                    code |-> NoCode]]
            /\ proc' = Kill(proc, daemonProcess)
       ELSE /\ stop' = [stop EXCEPT ![s] =
                   [pc |-> "waitPkill", target |-> Null, promise |-> "pending",
                    code |-> NoCode]]
            /\ UNCHANGED proc

\* stopDaemon() is called
StopCall(s) ==
    /\ StopDaemon(s)
    /\ UNCHANGED <<daemonProcess, start, api, toolCache, backend, refresh, cfg, nm, call, ws, rest, bin, conf, http>>

\* what pkill -f 'mcpd daemon' matches: the live daemons, owned or foreign
PkillMatches == {c \in Calls : proc[c].st = "running"}
ForeignMatches == api \in {Foreign, ForeignLegacy}

\* lines 441-448: pkill exits. Code 0: every matching process was signalled.
PkillExit(s, code) ==
    /\ stop[s].pc = "waitPkill"
    /\ code = 0 => (PkillMatches # {} \/ ForeignMatches)
    /\ code = 1 => (PkillMatches = {} /\ ~ForeignMatches)
    /\ stop' = [stop EXCEPT ![s].pc = "returned", ![s].code = code,
                            ![s].promise = IF PkillOk(code) THEN "resolved" ELSE "rejected"]
    /\ proc' = IF code = 0
               THEN [c \in Calls |-> IF c \in PkillMatches
                                     THEN [proc[c] EXCEPT !.sig = TRUE] ELSE proc[c]]
               ELSE proc
    /\ UNCHANGED <<daemonProcess, start, api, toolCache, backend, refresh, cfg, nm, call, ws, rest, bin, conf, http>>

\* lines 450-454: pkill could not be executed
PkillError(s) ==
    /\ stop[s].pc = "waitPkill"
    /\ stop' = [stop EXCEPT ![s].pc = "returned", ![s].code = PkillErrored,
                            ![s].promise = "resolved"]
    /\ UNCHANGED <<daemonProcess, proc, start, api, toolCache, backend, refresh, cfg, nm, call, ws, rest, bin, conf, http>>

----------------------------------------------------------------------------
(* Supervisor: environment *)

\* a daemon this supervisor did not spawn starts answering on port 8090
ForeignUp(kind) ==
    /\ api = NoDaemon
    /\ api' = kind
    /\ UNCHANGED <<daemonProcess, proc, start, stop, toolCache, backend, refresh, cfg, nm, call, ws, rest, bin, conf, http>>

ForeignDown ==
    /\ api \in {Foreign, ForeignLegacy}
    /\ api' = NoDaemon
    /\ UNCHANGED <<daemonProcess, proc, start, stop, toolCache, backend, refresh, cfg, nm, call, ws, rest, bin, conf, http>>

\* the spawned daemon has bound the port and answers the health probe
ProcServes(c) ==
    /\ proc[c].st = "running"
    /\ api = NoDaemon
    /\ api' = c
    /\ UNCHANGED <<daemonProcess, proc, start, stop, toolCache, backend, refresh, cfg, nm, call, ws, rest, bin, conf, http>>

----------------------------------------------------------------------------
(* Specification of the supervisor *)

BridgeIdle ==
    /\ toolCache = <<>>
    /\ backend = <<>>
    /\ refresh = <<>>
    /\ cfg = <<>>
    /\ nm = <<>>

\* no tools/call session, no gateway
GatewayIdle ==
    /\ call = <<>>
    /\ ws = <<>>
    /\ rest = <<>>

InitSup ==
    /\ daemonProcess = Null
    /\ proc = [c \in Calls |-> NoProc]
    /\ start = [c \in Calls |-> IdleStart]
    /\ stop = [s \in Stops |-> IdleStop]
    /\ api \in {NoDaemon, Foreign, ForeignLegacy}

\* no configuration change, no outbound request of the bridge or the gateway
ConfigIdle == conf = <<>> /\ http = <<>>

Init ==
    /\ InitSup
    /\ BridgeIdle
    /\ GatewayIdle
    /\ ConfigIdle
    /\ bin \in {InstalledBin, RemovedBin}

\* the continuations of startDaemon(), the events of its processes and timers,
\* and the environment
StartEvents ==
    \/ \E c \in Calls : StartResume(c)
    \/ \E c \in Calls : StartOwnedStatus(c)
    \/ \E c \in Calls : AbsoluteTimeout(c)
    \/ \E c \in Calls : ProcError(c)
    \/ \E c \in Calls, kind \in StderrKinds : StderrData(c, kind)
    \/ \E c \in Calls : ReconnectFire(c)
    \/ \E c \in Calls : ReconnectDone(c)
    \/ \E c \in Calls, code \in ExitCodes : ProcExit(c, code)
    \/ \E c \in Calls : DelayedProbeFire(c)
    \/ \E c \in Calls : DelayedProbeDone(c)
    \/ \E kind \in {Foreign, ForeignLegacy} : ForeignUp(kind)
    \/ ForeignDown
    \/ \E c \in Calls : ProcServes(c)

\* startDaemon()
NextStart ==
    \/ \E c \in Calls : StartCall(c)
    \/ StartEvents

\* the events of pkill
StopEvents ==
    \/ \E s \in Stops, code \in PkillCodes : PkillExit(s, code)
    \/ \E s \in Stops : PkillError(s)

\* stopDaemon()
NextStop ==
    \/ \E s \in Stops : StopCall(s)
    \/ StopEvents

Next == NextStart \/ NextStop

Spec == Init /\ [][Next]_vars

\* The event loop runs every timer that is due and every HTTP request of
\* getStatus() completes (the axios instance has a 10 s timeout).
Fairness ==
    \A c \in Calls :
        /\ WF_vars(StartResume(c))
        /\ WF_vars(StartOwnedStatus(c))
        /\ WF_vars(DelayedProbeFire(c))
        /\ WF_vars(DelayedProbeDone(c))
        /\ WF_vars(ReconnectFire(c))
        /\ WF_vars(ReconnectDone(c))
        /\ WF_vars(AbsoluteTimeout(c))

\* The starts alone, under fairness: stopDaemon() reads and writes nothing of a
\* start's closure, promise or timers.
FairSpec == Init /\ [][NextStart]_vars /\ Fairness

----------------------------------------------------------------------------
(* Claims about the supervisor *)

\* C1: one startDaemon() call is settled exactly once: after one trigger has
\* settled it, no other trigger calls resolve or reject on it.
C1_SettledOnce == \A c \in Calls : start[c].settleCalls <= 1

\* C2: a startDaemon() call never spawns a process while another call that has
\* spawned one is still pending: no two in-flight starts have each spawned.
C2_SingleSpawn ==
    \A c, d \in Calls :
        (c # d /\ start[c].promise = "pending" /\ start[d].promise = "pending")
            => ~(proc[c].st # "none" /\ proc[d].st # "none")

\* C3: when the first probe of startDaemon() reports the daemon healthy, the call
\* resolves with that status, spawns nothing and leaves daemonProcess unchanged.
C3_HealthyShortCircuit ==
    [][\A c \in Calls :
        (start[c].pc = "probe" /\ start'[c].pc # "probe" /\ GetStatus.running)
            => /\ start'[c].promise = "AlreadyRunning"
               /\ start'[c].status = GetStatus
               /\ start'[c].pc = "returned"
               /\ proc' = proc
               /\ proc[c].st = "none"
               /\ daemonProcess' = daemonProcess]_vars

C3_Witness ==
    \E c \in Calls : start[c].promise = "AlreadyRunning" /\ start[c].status.running

\* C4: on 'address already in use' from the spawned process the supervisor kills
\* that process (and no other) and drops the handle; the reconnect probe then
\* resolves a start that is still pending with the existing daemon's status if
\* it is healthy, and rejects it with the port-conflict error otherwise.
C4_PortConflict ==
    [][\A c \in Calls :
        /\ (start'[c].rArmed > start[c].rArmed)
              => /\ daemonProcess' = Null
                 /\ proc[c].st = "running" => proc'[c].sig
                 /\ \A d \in Calls \ {c} : proc'[d].sig = proc[d].sig
        /\ (start'[c].rAwait < start[c].rAwait /\ start[c].promise = "pending")
              => IF GetStatus.running
                 THEN start'[c].promise = "ConnectedExisting"
                      /\ start'[c].status = GetStatus
                 ELSE start'[c].promise = "PortConflict"]_vars

\* C6: stopDaemon() with an owned process sends SIGTERM to it and resolves only
\* at the exit event of that process, with daemonProcess null.
C6_StopOwned ==
    [][\A s \in Stops :
        /\ (stop[s].pc = "idle" /\ stop'[s].pc # "idle" /\ daemonProcess # Null)
              => /\ stop'[s].pc = "waitExit"
                 /\ stop'[s].target = daemonProcess
                 /\ stop'[s].promise = "pending"
                 /\ proc[daemonProcess].st = "running" => proc'[daemonProcess].sig
        /\ (stop[s].pc = "waitExit" /\ stop'[s].pc # "waitExit")
              => /\ stop'[s].promise = "resolved"
                 /\ proc[stop[s].target].st = "running"
                 /\ proc'[stop[s].target].st = "exited"
                 /\ proc[stop[s].target].sig
                 /\ daemonProcess' = Null]_vars

C6_Witness ==
    \E s \in Stops : stop[s].target # Null /\ stop[s].promise = "resolved"

\* C7: stopDaemon() without an owned process runs pkill; it resolves when pkill
\* killed a match (0), when nothing matched (1) and when pkill could not be
\* executed, and rejects only on another pkill exit code.
C7_StopForeign ==
    /\ \A s \in Stops :
          (stop[s].pc = "returned" /\ stop[s].target = Null)
              => /\ stop[s].code \in PkillCodes \cup {PkillErrored}
                 /\ stop[s].code \in {0, 1, PkillErrored} => stop[s].promise = "resolved"
                 /\ stop[s].code \notin {0, 1, PkillErrored} => stop[s].promise = "rejected"
    /\ \A s \in Stops :
          stop[s].pc = "waitPkill" => stop[s].target = Null /\ stop[s].promise = "pending"

C7_Witness ==
    \E s \in Stops : stop[s].pc = "returned" /\ stop[s].code = 1
                     /\ stop[s].promise = "resolved"

\* C8 (as claimed): whenever getStatus() reports running, it carries a non-null pid.
C8_RunningHasPid == GetStatus.running => GetStatus.pid # NoPid

\* C8 (amended): whenever getStatus() reports running it carries at most one pid:
\* the pid of the owned process, which has not exited, when a spawned process is
\* owned, and no pid when no process is owned (a foreign daemon answers).
C8_PidOfOwned ==
    GetStatus.running =>
        /\ daemonProcess = Null => GetStatus.pid = NoPid
        /\ GetStatus.pid # NoPid =>
              /\ GetStatus.pid = daemonProcess
              /\ proc[daemonProcess].st = "running"
        /\ (daemonProcess # Null /\ proc[daemonProcess].st = "running")
              => GetStatus.pid = daemonProcess

C8_Witness == GetStatus.running /\ GetStatus.pid # NoPid /\ api = daemonProcess

\* C5: every startDaemon() call eventually settles; a start that nothing else
\* has settled is rejected by the absolute timeout.
C5_EventuallySettles ==
    /\ \A c \in Calls :
          (start[c].pc # "idle") ~> (start[c].promise \notin {"none", "pending"})
    /\ [][\A c \in Calls :
            (start[c].abs = "armed" /\ start'[c].abs = "fired"
                /\ start[c].promise = "pending" /\ ~start[c].hasResolved)
                => start'[c].promise = "StartTimeout"]_vars

C5_Witness ==
    \E c \in Calls : start[c].promise = "StartTimeout" /\ start[c].errorOutput # {}

\* C23: the exit of the spawned process with a non-zero, non-null code and no
\* port-conflict output captured rejects a pending start with the exited-non-zero
\* error, built from the stderr captured so far; an exit with code 0 or null, or
\* after port-conflict output, leaves the start as it was.
C23_ExitRejects ==
    [][\A c \in Calls, code \in ExitCodes :
        ProcExit(c, code) =>
            IF code # 0 /\ code # NullCode /\ "conflict" \notin start[c].errorOutput
            THEN /\ start[c].promise = "pending" => start'[c].promise = "ExitedNonZero"
                 /\ start'[c].errorOutput = start[c].errorOutput
            ELSE start'[c].promise = start[c].promise]_vars

C23_Witness ==
    \E c \in Calls : /\ start[c].promise = "ExitedNonZero"
                      /\ start[c].errorOutput = {"other"}
                      /\ proc[c].st = "exited"

\* C24: the delayed probe of an unsettled start resolves it when the daemon is
\* healthy, rejects it with the start-timeout error when the daemon is not
\* healthy and no stderr was captured, and leaves it pending when stderr was
\* captured; when the start is already settled as the timer fires, the probe
\* does nothing (no health request, no resolve or reject).
C24_DelayedProbe ==
    [][\A c \in Calls :
        /\ (start[c].delay = "armed" /\ start'[c].delay # "armed"
                /\ start[c].promise # "pending")
              => start'[c] = [start[c] EXCEPT !.delay = "done"]
        /\ (start[c].delay = "awaiting" /\ start'[c].delay = "done"
                /\ start[c].promise = "pending")
              => IF GetStatus.running
                 THEN start'[c].promise = "Healthy" /\ start'[c].status = GetStatus
                 ELSE IF start[c].errorOutput = {}
                 THEN start'[c].promise = "NotRunningAfter5s"
                 ELSE start'[c].promise = "pending"]_vars

----------------------------------------------------------------------------
(* Specification of the resolution of the binary *)

\* the binary mcpdPath names is removed after the supervisor was constructed
BinaryRemoved ==
    /\ bin.mcpdPath # BareName
    /\ ~bin.removed
    /\ bin' = [bin EXCEPT !.removed = TRUE]
    /\ UNCHANGED <<daemonProcess, proc, start, stop, api, toolCache, backend, refresh, cfg, nm,
                   call, ws, rest, conf, http>>

InitBinary ==
    /\ InitSup
    /\ BridgeIdle
    /\ GatewayIdle
    /\ ConfigIdle
    /\ \E files \in SUBSET AllPaths : bin = Constructed(files)

\* startDaemon() up to the spawn; the events of a spawned process do not read
\* mcpdPath
NextBinary ==
    \/ \E c \in Calls : StartCall(c)
    \/ \E c \in Calls : StartResume(c)
    \/ \E c \in Calls : StartOwnedStatus(c)
    \/ BinaryRemoved

SpecBinary == InitBinary /\ [][NextBinary]_vars

\* a start reaches the promise executor: no healthy daemon, no owned process
ReachesExecutor(c) ==
    /\ start[c].pc = "probe"
    /\ ~ShortCircuit(GetStatus)
    /\ ~OwnsProcess

\* lines 231-240, for every start that reaches the executor: binary-not-found,
\* and nothing spawned, exactly when the resolved path is not the bare name and
\* does not exist
FailsFast ==
    \A c \in Calls :
        (ReachesExecutor(c) /\ start'[c].pc # "probe")
            => IF BinaryMissing
               THEN /\ start'[c].promise = "BinaryNotFound"
                    /\ proc' = proc
                    /\ daemonProcess' = daemonProcess
               ELSE start'[c].promise # "BinaryNotFound"

\* C25 (as claimed): mcpdPath is the bundled binary if one exists, else the first
\* existing system install path, else the bare name 'mcpd'; start fails fast
\* with binary-not-found when that path is not the bare name and does not exist.
C25_BundledFirst ==
    [][/\ bin.mcpdPath =
            IF GetBundledMcpdPath(bin.seen) # NoPath THEN GetBundledMcpdPath(bin.seen)
            ELSE IF FirstExisting(SystemPaths, bin.seen) # NoPath
            THEN FirstExisting(SystemPaths, bin.seen)
            ELSE BareName
       /\ FailsFast]_vars

\* C25 (amended): mcpdPath is the first existing system install path, else the
\* bundled binary if one exists, else the bare name 'mcpd': a system install
\* is preferred to the bundled binary; a start that reaches the spawn step
\* fails fast with binary-not-found when that path is not the bare name and
\* does not exist.
C25_SystemFirst ==
    [][/\ bin.mcpdPath =
            IF FirstExisting(SystemPaths, bin.seen) # NoPath
            THEN FirstExisting(SystemPaths, bin.seen)
            ELSE IF GetBundledMcpdPath(bin.seen) # NoPath
            THEN GetBundledMcpdPath(bin.seen)
            ELSE BareName
       /\ FailsFast]_vars

C25_Witness ==
    /\ GetBundledMcpdPath(bin.seen) # NoPath
    /\ FirstExisting(SystemPaths, bin.seen) = SystemPaths[2]
    /\ bin.mcpdPath = SystemPaths[2]
    /\ bin.removed
    /\ \E c \in Calls : start[c].promise = "BinaryNotFound"

----------------------------------------------------------------------------
(* Supervisor: addServerToConfig and removeServerFromConfig *)

ServerNames == {"a"}

\* .mcpd.toml: without a servers table, with an empty one, with one server
ConfigFiles == {[hasServers |-> FALSE, servers |-> <<>>],
                [hasServers |-> TRUE, servers |-> <<>>],
                [hasServers |-> TRUE, servers |-> <<"a">>]}

NoCall == 0

IdleOp == [pc |-> "idle", kind |-> "none", error |-> "none", stop |-> NoCall,
           call |-> NoCall]

\* lines 628 and 699: config.servers.some(...), config.servers.filter(...)
HasServer(servers, name) == \E i \in DOMAIN servers : servers[i] = name
Without(servers, name) == SelectSeq(servers, LAMBDA x : x # name)

\* mutant of WasRunning: the daemon is restarted whatever getStatus() reports
WasRunningAlways(status) == TRUE

\* lines 680 and 712: if (wasRunning.running)
WasRunning(status) == status.running

Throws(kind, error) == [IdleOp EXCEPT !.pc = "failed", !.kind = kind, !.error = error]

\* addServerToConfig(server), lines 606-679: up to the await of getStatus()
AddServerToConfig(name) ==
    /\ conf.op.pc = "idle"
    /\ LET servers == IF conf.file.hasServers THEN conf.file.servers ELSE <<>> IN
       IF HasServer(servers, name)
       THEN conf' = [conf EXCEPT !.op = Throws("add", "AlreadyExists")]
       ELSE conf' = [conf EXCEPT !.file = [hasServers |-> TRUE,
                                           servers |-> Append(servers, name)],
                                 !.op = [IdleOp EXCEPT !.pc = "status", !.kind = "add"]]
    /\ UNCHANGED <<daemonProcess, proc, start, stop, api, toolCache, backend, refresh, cfg, nm,
                   call, ws, rest, bin, http>>

\* removeServerFromConfig(name), lines 688-711: up to the await of getStatus()
RemoveServerFromConfig(name) ==
    /\ conf.op.pc = "idle"
    /\ IF ~conf.file.hasServers
       THEN conf' = [conf EXCEPT !.op = Throws("remove", "NoServersConfigured")]
       ELSE IF Len(Without(conf.file.servers, name)) = Len(conf.file.servers)
       THEN conf' = [conf EXCEPT !.op = Throws("remove", "ServerNotFound")]
       ELSE conf' = [conf EXCEPT !.file.servers = Without(conf.file.servers, name),
                                 !.op = [IdleOp EXCEPT !.pc = "status", !.kind = "remove"]]
    /\ UNCHANGED <<daemonProcess, proc, start, stop, api, toolCache, backend, refresh, cfg, nm,
                   call, ws, rest, bin, http>>

\* lines 679-681 and 711-713: getStatus() completes; stopDaemon() is called when
\* the daemon is running
RestartStatus ==
    /\ conf.op.pc = "status"
    /\ IF WasRunning(GetStatus)
       THEN \E s \in Stops :
               /\ StopDaemon(s)
               /\ conf' = [conf EXCEPT !.op.pc = "stopping", !.op.stop = s]
       ELSE /\ conf' = [conf EXCEPT !.op.pc = "returned"]
            /\ UNCHANGED <<proc, stop>>
    /\ UNCHANGED <<daemonProcess, start, api, toolCache, backend, refresh, cfg, nm,
                   call, ws, rest, bin, http>>

\* lines 681-682 and 713-714: stopDaemon() has settled; the 1000 ms wait is
\* started, or the rejection is thrown on
RestartStopped ==
    /\ conf.op.pc = "stopping"
    /\ stop[conf.op.stop].pc = "returned"
    /\ conf' = IF stop[conf.op.stop].promise = "resolved"
               THEN [conf EXCEPT !.op.pc = "waiting"]
               ELSE [conf EXCEPT !.op.pc = "failed", !.op.error = "StopFailed"]
    /\ UNCHANGED <<daemonProcess, proc, start, stop, api, toolCache, backend, refresh, cfg, nm,
                   call, ws, rest, bin, http>>

\* lines 682-683 and 714-715: the wait is over; startDaemon() is called
RestartWaited ==
    /\ conf.op.pc = "waiting"
    /\ \E c \in Calls :
          /\ start[c].pc = "idle"
          /\ \A d \in Calls : d < c => start[d].pc # "idle"
          /\ start' = [start EXCEPT ![c].pc = "probe", ![c].promise = "pending"]
          /\ conf' = [conf EXCEPT !.op.pc = "starting", !.op.call = c]
    /\ UNCHANGED <<daemonProcess, proc, stop, api, toolCache, backend, refresh, cfg, nm,
                   call, ws, rest, bin, http>>

\* lines 683-685 and 715-717: startDaemon() has settled
RestartStarted ==
    /\ conf.op.pc = "starting"
    /\ start[conf.op.call].promise \notin {"none", "pending"}
    /\ conf' = IF start[conf.op.call].promise \in ResolvedKinds
               THEN [conf EXCEPT !.op.pc = "returned"]
               ELSE [conf EXCEPT !.op.pc = "failed", !.op.error = "StartFailed"]
    /\ UNCHANGED <<daemonProcess, proc, start, stop, api, toolCache, backend, refresh, cfg, nm,
                   call, ws, rest, bin, http>>

InitConfig ==
    /\ InitSup
    /\ BridgeIdle
    /\ GatewayIdle
    /\ bin = InstalledBin
    /\ http = <<>>
    /\ \E file \in ConfigFiles : conf = [file |-> file, op |-> IdleOp]

\* one change of the configuration; startDaemon() may have been called before,
\* the last call is the one of the restart
NextConfig ==
    \/ \E name \in ServerNames : AddServerToConfig(name)
    \/ \E name \in ServerNames : RemoveServerFromConfig(name)
    \/ RestartStatus
    \/ RestartStopped
    \/ RestartWaited
    \/ RestartStarted
    \/ \E c \in Calls \ {NumCalls} : StartCall(c)
    \/ StartEvents
    \/ StopEvents

SpecConfig == InitConfig /\ [][NextConfig]_vars

\* C22: after add/removeServerToConfig has written the file with the daemon
\* running, stopDaemon() is called, then (once it has resolved) the wait, then
\* startDaemon(), and the operation returns only after that start has settled;
\* with the daemon not running neither is called; an operation that fails its
\* validation writes nothing and restarts nothing.
C22_RestartOrder ==
    [][/\ (conf.op.pc = "idle" /\ conf'.op.pc = "failed")
            => /\ conf'.file = conf.file
               /\ conf'.op.error \in {"AlreadyExists", "NoServersConfigured", "ServerNotFound"}
               /\ stop' = stop /\ start' = start /\ proc' = proc
       /\ (conf.op.pc = "idle" /\ conf'.op.pc = "status")
            => conf'.file # conf.file /\ stop' = stop /\ start' = start
       /\ (conf.op.pc = "status" /\ conf'.op.pc # "status")
            => IF GetStatus.running
               THEN /\ conf'.op.pc = "stopping"
                    /\ stop[conf'.op.stop].pc = "idle"
                    /\ stop'[conf'.op.stop].pc \in {"waitExit", "waitPkill"}
                    /\ start' = start
               ELSE /\ conf'.op.pc = "returned"
                    /\ conf'.op.stop = NoCall /\ conf'.op.call = NoCall
                    /\ stop' = stop /\ start' = start /\ proc' = proc
       /\ (conf.op.pc # "waiting" /\ conf'.op.pc = "waiting")
            => /\ conf.op.pc = "stopping"
               /\ stop[conf.op.stop].promise = "resolved"
               /\ start' = start
       /\ (conf.op.pc # "starting" /\ conf'.op.pc = "starting")
            => /\ conf.op.pc = "waiting"
               /\ start[conf'.op.call].pc = "idle"
               /\ start'[conf'.op.call].pc = "probe"
               /\ stop' = stop
       /\ (conf.op.pc \notin {"status", "returned"} /\ conf'.op.pc = "returned")
            => /\ conf.op.pc = "starting"
               /\ start[conf.op.call].promise \in ResolvedKinds
       /\ conf.op.pc \in {"failed", "returned"} => conf'.file = conf.file
       /\ (conf.op.pc \in {"idle", "status", "stopping", "waiting"}
              \/ conf.op.error \in {"AlreadyExists", "NoServersConfigured", "ServerNotFound"})
            => conf.op.call = NoCall]_vars

C22_Witness ==
    /\ conf.op.pc = "returned"
    /\ conf.op.stop # NoCall
    /\ conf.op.call # NoCall
    /\ stop[conf.op.stop].promise = "resolved"
    /\ start[conf.op.call].promise = "Healthy"

\* C30: when add/removeServerToConfig found the daemon running and its restart
\* completed without error, the start of the restart has spawned a process and
\* was resolved by that spawn's health probe: it did not short-circuit onto a
\* daemon that was running before the file was written.
C30_RestartSpawns ==
    (conf.op.pc = "returned" /\ conf.op.call # NoCall)
        => /\ proc[conf.op.call].st # "none"
           /\ start[conf.op.call].promise = "Healthy"

\* C27: a startDaemon() call that resolves returns a status with running = true.
C27_ResolvedIsRunning ==
    \A c \in Calls : start[c].promise \in ResolvedKinds => start[c].status.running

\* C28: when startDaemon() rejects after having spawned a process, the supervisor
\* owns no live child afterwards: daemonProcess is null and the spawned process
\* has failed to spawn, has exited or has been signalled.
C28_RejectedOwnsNothing ==
    [][\A c \in Calls :
        (start[c].promise = "pending" /\ start'[c].promise \in RejectedKinds
            /\ proc[c].st # "none")
            => /\ daemonProcess' = Null
               /\ proc'[c].st \in {"errored", "exited"} \/ proc'[c].sig]_vars

\* C29: daemonProcess is cleared only by an event of the process it refers to
\* (its exit, its spawn error, its port-conflict output): an event of an
\* earlier process never drops the handle of a later one.
C29_ClearedByOwnEvent ==
    [][(daemonProcess # Null /\ daemonProcess' = Null)
        => \/ proc'[daemonProcess].st # proc[daemonProcess].st
           \/ proc'[daemonProcess].chunks # proc[daemonProcess].chunks]_vars

----------------------------------------------------------------------------
(* Names: strings are sequences of characters *)

MaxLen == 4
NumRefreshes == 2

Alphabet == {"a", "_"}
Names == UNION {[1..k -> Alphabet] : k \in 0..MaxLen}

Delim == <<"_", "_">>

\* String.prototype.split('__'): the separators are found from left to right
RECURSIVE SplitFrom(_, _, _)
SplitFrom(s, i, cur) ==
    IF i > Len(s) THEN <<cur>>
    ELSE IF i < Len(s) /\ s[i] = "_" /\ s[i + 1] = "_"
         THEN <<cur>> \o SplitFrom(s, i + 2, <<>>)
         ELSE SplitFrom(s, i + 1, Append(cur, s[i]))

Split(s) == SplitFrom(s, 1, <<>>)

\* String.prototype.includes('__')
HasDelim(s) == \E i \in 1..(Len(s) - 1) : s[i] = "_" /\ s[i + 1] = "_"

\* targetServer undefined (an empty string is falsy as well)
NoTarget == <<>>

\* line 90 of the bridge: mode = targetServer ? 'individual' : 'unified'
ModeOf(targetServer) == IF targetServer # NoTarget THEN "individual" ELSE "unified"

MkCfg(targetServer, useNamespacing) ==
    [mode |-> ModeOf(targetServer), targetServer |-> targetServer,
     useNamespacing |-> useNamespacing]

\* a listing that never namespaces
ToolNameRaw(server, tool, c) == tool

\* the external name getAllTools gives a tool, lines 170-177
ToolName(server, tool, c) ==
    IF c.mode = "unified" THEN server \o Delim \o tool
    ELSE IF c.mode = "individual" /\ c.useNamespacing THEN server \o Delim \o tool
    ELSE tool

Decoded(server, tool) == [ok |-> TRUE, server |-> server, tool |-> tool]
InvalidToolNameFormat == [ok |-> FALSE, server |-> <<>>, tool |-> <<>>]

\* parseToolName without its first branch
ParseToolNameAlwaysSplit(namespacedName, c) ==
    LET parts == Split(namespacedName) IN
    IF Len(parts) # 2
    THEN IF c.targetServer # NoTarget
         THEN Decoded(c.targetServer, namespacedName)
         ELSE InvalidToolNameFormat
    ELSE Decoded(parts[1], parts[2])

\* McpdBridgeServer.parseToolName
ParseToolName(namespacedName, c) ==
    IF c.mode = "individual" /\ ~c.useNamespacing /\ c.targetServer # NoTarget
    THEN Decoded(c.targetServer, namespacedName)
    ELSE LET parts == Split(namespacedName) IN
         IF Len(parts) # 2
         THEN IF c.targetServer # NoTarget
              THEN Decoded(c.targetServer, namespacedName)
              ELSE InvalidToolNameFormat
         ELSE Decoded(parts[1], parts[2])

\* MCPHTTPEndpoint.callTool: how the endpoint decodes the name, lines 244-259
HttpParseToolName(toolName, targetServer) ==
    IF targetServer # NoTarget
    THEN Decoded(targetServer, toolName)
    ELSE LET parts == Split(toolName) IN
         IF Len(parts) # 2 THEN InvalidToolNameFormat
         ELSE Decoded(parts[1], parts[2])

TargetA == <<"a">>
Configs == {MkCfg(NoTarget, TRUE), MkCfg(TargetA, TRUE), MkCfg(TargetA, FALSE)}

SupIdle ==
    /\ daemonProcess = Null
    /\ proc = [c \in Calls |-> NoProc]
    /\ start = [c \in Calls |-> IdleStart]
    /\ stop = [s \in Stops |-> IdleStop]
    /\ api = NoDaemon
    /\ bin = InstalledBin
    /\ conf = <<>>
    /\ http = <<>>

NoResult == [ok |-> FALSE, server |-> <<>>, tool |-> <<>>]

\* number of delimiters in a name, counted from left to right without overlap
RECURSIVE DelimCountFrom(_, _)
DelimCountFrom(s, i) ==
    IF i >= Len(s) THEN 0
    ELSE IF s[i] = "_" /\ s[i + 1] = "_" THEN 1 + DelimCountFrom(s, i + 2)
         ELSE DelimCountFrom(s, i + 1)

DelimCount(s) == DelimCountFrom(s, 1)

\* either a server and a tool of the daemon, to be listed and then called, or
\* an external name a client sends in tools/call
InitNames ==
    /\ SupIdle
    /\ GatewayIdle
    /\ toolCache = <<>>
    /\ backend = <<>>
    /\ refresh = <<>>
    /\ cfg \in Configs
    /\ \/ \E server \in Names \ {<<>>}, tool \in Names \ {<<>>} :
             nm = [pc |-> "input", server |-> server, tool |-> tool, ext |-> <<>>,
                   bridge |-> NoResult, http |-> NoResult, re |-> <<>>]
       \/ \E x \in Names \ {<<>>} :
             nm = [pc |-> "external", server |-> <<>>, tool |-> <<>>, ext |-> x,
                   bridge |-> NoResult, http |-> NoResult, re |-> <<>>]

\* the listing names the tool (getAllTools, lines 170-177; the endpoint names it
\* server__tool without a target and leaves it unchanged with one, lines 199, 220)
NamesEncode ==
    /\ nm.pc = "input"
    /\ nm' = [nm EXCEPT !.pc = "encoded", !.ext = ToolName(nm.server, nm.tool, cfg)]
    /\ UNCHANGED <<daemonProcess, proc, start, stop, api, toolCache, backend, refresh, cfg, call, ws, rest, bin, conf, http>>

\* tools/call with that name: the bridge and the endpoint decode it
NamesDecode ==
    /\ nm.pc = "encoded"
    /\ nm' = [nm EXCEPT !.pc = "decoded",
                        !.bridge = ParseToolName(nm.ext, cfg),
                        !.http = HttpParseToolName(nm.ext, cfg.targetServer)]
    /\ UNCHANGED <<daemonProcess, proc, start, stop, api, toolCache, backend, refresh, cfg, call, ws, rest, bin, conf, http>>

\* tools/call with a name of the client's: the bridge and the endpoint decode it
NamesParse ==
    /\ nm.pc = "external"
    /\ nm' = [nm EXCEPT !.pc = "parsed",
                        !.bridge = ParseToolName(nm.ext, cfg),
                        !.http = HttpParseToolName(nm.ext, cfg.targetServer)]
    /\ UNCHANGED <<daemonProcess, proc, start, stop, api, toolCache, backend, refresh, cfg,
                   call, ws, rest, bin, conf, http>>

\* the pair the bridge decoded is given the name the listing gives it
NamesReencode ==
    /\ nm.pc = "parsed"
    /\ nm.bridge.ok
    /\ nm' = [nm EXCEPT !.pc = "reencoded",
                        !.re = ToolName(nm.bridge.server, nm.bridge.tool, cfg)]
    /\ UNCHANGED <<daemonProcess, proc, start, stop, api, toolCache, backend, refresh, cfg,
                   call, ws, rest, bin, conf, http>>

NextNames == NamesEncode \/ NamesDecode \/ NamesParse \/ NamesReencode

SpecNames == InitNames /\ [][NextNames]_vars

\* C10: in Unified mode, for server and tool names without '__', the external
\* name server + '__' + tool decodes back to exactly (server, tool), in the
\* bridge and in the HTTP endpoint.
C10_RoundTrip ==
    (nm.pc = "decoded" /\ cfg.mode = "unified" /\ ~HasDelim(nm.server) /\ ~HasDelim(nm.tool))
        => /\ nm.bridge = Decoded(nm.server, nm.tool)
           /\ nm.http = Decoded(nm.server, nm.tool)

\* C11: for every external name x that does not contain '__' twice and every
\* configuration of the bridge, when parseToolName(x) returns a pair, the name
\* the listing gives that pair in the same configuration is x again.
C11_DecodeEncode ==
    (nm.pc = "reencoded" /\ DelimCount(nm.ext) < 2) => nm.re = nm.ext

\* a name that splits on '__' into exactly two non-empty parts
TwoNonEmptyParts(x) ==
    LET parts == Split(x) IN Len(parts) = 2 /\ parts[1] # <<>> /\ parts[2] # <<>>

\* C26: decoding never returns an empty server or tool name: a name that does
\* not split on '__' into exactly two non-empty parts is resolved to
\* (fixedTargetServer, whole name) when a fixed target server is configured and
\* fails with the invalid-tool-name-format error otherwise, in the bridge and
\* in the HTTP endpoint.
C26_NoEmptyNames ==
    nm.pc = "parsed" =>
        /\ nm.bridge.ok => nm.bridge.server # <<>> /\ nm.bridge.tool # <<>>
        /\ nm.http.ok => nm.http.server # <<>> /\ nm.http.tool # <<>>
        /\ ~TwoNonEmptyParts(nm.ext) =>
              IF cfg.targetServer # NoTarget
              THEN /\ nm.bridge = Decoded(cfg.targetServer, nm.ext)
                   /\ nm.http = Decoded(cfg.targetServer, nm.ext)
              ELSE nm.bridge = InvalidToolNameFormat /\ nm.http = InvalidToolNameFormat

----------------------------------------------------------------------------
(* Bridge: the tool catalog *)

Refreshes == 1..NumRefreshes

SrvA == <<"a">>
SrvB == <<"b">>
ToolT == <<"t">>
ToolU == <<"u">>

\* what GET /api/v1/servers may answer, and the tools a server may have
ServerLists == {<<>>, <<SrvA>>, <<SrvB>>, <<SrvA, SrvB>>}
ToolLists == {<<ToolT>>, <<ToolT, ToolU>>}

EmptyMap == [x \in {} |-> <<>>]

\* Map.prototype.set
MapSet(m, k, v) == [x \in DOMAIN m \cup {k} |-> IF x = k THEN v ELSE m[x]]

IdleRefresh ==
    [pc |-> "idle", todo |-> <<>>, allTools |-> <<>>, fetched |-> EmptyMap,
     failed |-> FALSE, who |-> "", target |-> NoTarget, lost |-> {}, err |-> "none"]

\* fetchServers(): the list of the daemon, [] when the request fails
FetchServers(ok) == IF ok THEN backend.servers ELSE <<>>

\* fetchToolsForServer(): the tools of the server, [] when the request fails
FetchToolsForServer(serverName, ok) == IF ok THEN backend.tools[serverName] ELSE <<>>

\* lines 148-160: the servers getAllTools() goes through
ServersToFetch(allServers) ==
    IF cfg.mode = "individual" /\ cfg.targetServer # NoTarget
    THEN SelectSeq(allServers, LAMBDA sv : sv = cfg.targetServer)
    ELSE allServers

\* lines 168-188: the names of the tools of one server, in the listing
NamedTools(server, tools) == [i \in 1..Len(tools) |-> ToolName(server, tools[i], cfg)]

\* tools/list arrives: getAllTools() runs up to the await of fetchServers()
RefreshCall(r) ==
    /\ refresh[r].pc = "idle"
    /\ refresh' = [refresh EXCEPT ![r] = [IdleRefresh EXCEPT !.pc = "servers",
                                                             !.who = "bridge",
                                                             !.target = cfg.targetServer]]
    /\ UNCHANGED <<daemonProcess, proc, start, stop, api, toolCache, backend, cfg, nm, call, ws, rest, bin, conf, http>>

\* lines 150-162: fetchServers() completes; the loop over the servers begins
FetchServersDone(r, ok) ==
    /\ refresh[r].pc = "servers"
    /\ refresh[r].who = "bridge"
    /\ LET servers == ServersToFetch(FetchServers(ok)) IN
       refresh' = [refresh EXCEPT ![r].pc = IF servers = <<>> THEN "done" ELSE "tools",
                                  ![r].todo = servers,
                                  ![r].failed = ~ok,
                                  ![r].err = IF ok THEN "none" ELSE "servers"]
    /\ UNCHANGED <<daemonProcess, proc, start, stop, api, toolCache, backend, cfg, nm, call, ws, rest, bin, conf, http>>

\* lines 165-189: fetchToolsForServer() of the current server completes; its
\* tools are put in the cache and appended to the listing
FetchToolsDone(r, ok) ==
    /\ refresh[r].pc = "tools"
    /\ refresh[r].who = "bridge"
    /\ LET server == Head(refresh[r].todo)
           tools == FetchToolsForServer(server, ok) IN
       /\ toolCache' = MapSet(toolCache, server, tools)
       /\ refresh' = [refresh EXCEPT
              ![r].todo = Tail(@),
              ![r].pc = IF Tail(refresh[r].todo) = <<>> THEN "done" ELSE "tools",
              ![r].allTools = @ \o NamedTools(server, tools),
              ![r].fetched = MapSet(@, server, tools),
              ![r].failed = @ \/ ~ok,
              ![r].lost = IF ok THEN @ ELSE @ \cup {server}]
    /\ UNCHANGED <<daemonProcess, proc, start, stop, api, backend, cfg, nm, call, ws, rest, bin, conf, http>>

\* the listing is returned to the client; the next tools/list may come
RefreshReturn(r) ==
    /\ refresh[r].pc = "done"
    /\ refresh' = [refresh EXCEPT ![r] = IdleRefresh]
    /\ UNCHANGED <<daemonProcess, proc, start, stop, api, toolCache, backend, cfg, nm, call, ws, rest, bin, conf, http>>

\* the daemon's configuration changes: a server is added or removed, or the
\* tools of a server change
BackendChange ==
    /\ \/ \E sl \in ServerLists : backend' = [backend EXCEPT !.servers = sl]
       \/ \E sv \in {SrvA, SrvB}, tl \in ToolLists :
             backend' = [backend EXCEPT !.tools[sv] = tl]
    /\ backend' # backend
    /\ UNCHANGED <<daemonProcess, proc, start, stop, api, toolCache, refresh, cfg, nm, call, ws, rest, bin, conf, http>>

\* a loop without its inner try: the failure ends the listing
InnerCatchAbort(rf, server) == [rf EXCEPT !.pc = "done", !.todo = <<>>, !.err = "tools"]

\* mcp-http-endpoint.ts lines 229-231 and part_004 lines 187-189: the catch
\* inside the loop logs the failure and the loop goes on with the next server
InnerCatch(rf, server) == [rf EXCEPT !.lost = @ \cup {server}]

\* one step of the loop over the servers, in the endpoint and in the gateway:
\* the tools of the current server arrive and are pushed, or the fetch fails
LoopStep(rf, ok) ==
    LET server == Head(rf.todo)
        tools == FetchToolsForServer(server, ok)
        next == [rf EXCEPT !.todo = Tail(@),
                           !.pc = IF Tail(rf.todo) = <<>> THEN "done" ELSE "tools"] IN
    IF ok
    THEN [next EXCEPT !.allTools = @ \o [i \in 1..Len(tools) |-> server \o Delim \o tools[i]],
                      !.fetched = MapSet(@, server, tools)]
    ELSE InnerCatch(next, server)

\* the request for the list of servers completes; a failure ends the listing
ServersStep(rf, ok) ==
    IF ok
    THEN [rf EXCEPT !.todo = backend.servers,
                    !.pc = IF backend.servers = <<>> THEN "done" ELSE "tools"]
    ELSE [rf EXCEPT !.pc = "done", !.err = "servers"]

\* MCPHTTPEndpoint.listTools begins: tools/list on /mcp (no target) or on
\* /partner/:partner/:server/mcp
HttpListTools(r, targetServer) ==
    /\ refresh[r].pc = "idle"
    /\ refresh' = [refresh EXCEPT ![r] =
          [IdleRefresh EXCEPT !.who = "endpoint", !.target = targetServer,
                              !.pc = IF targetServer # NoTarget THEN "tools" ELSE "servers",
                              !.todo = IF targetServer # NoTarget THEN <<targetServer>>
                                       ELSE <<>>]]
    /\ UNCHANGED <<daemonProcess, proc, start, stop, api, toolCache, backend, cfg, nm,
                   call, ws, rest, bin, conf, http>>

\* lines 209-210, 236-239: the list of servers arrives, or the outer catch
\* returns []
HttpServersDone(r, ok) ==
    /\ refresh[r].pc = "servers"
    /\ refresh[r].who = "endpoint"
    /\ refresh' = [refresh EXCEPT ![r] = ServersStep(@, ok)]
    /\ UNCHANGED <<daemonProcess, proc, start, stop, api, toolCache, backend, cfg, nm,
                   call, ws, rest, bin, conf, http>>

\* lines 197-206 (target: the raw names, or [] from the outer catch) and
\* lines 213-232 (no target: one step of the loop)
HttpToolsDone(r, ok) ==
    /\ refresh[r].pc = "tools"
    /\ refresh[r].who = "endpoint"
    /\ LET rf == refresh[r]
           tools == FetchToolsForServer(rf.target, ok) IN
       refresh' = [refresh EXCEPT ![r] =
          IF rf.target = NoTarget THEN LoopStep(rf, ok)
          ELSE IF ok THEN [rf EXCEPT !.pc = "done", !.todo = <<>>, !.allTools = tools,
                                     !.fetched = MapSet(@, rf.target, tools)]
          ELSE [rf EXCEPT !.pc = "done", !.todo = <<>>, !.err = "tools"]]
    /\ UNCHANGED <<daemonProcess, proc, start, stop, api, toolCache, backend, cfg, nm,
                   call, ws, rest, bin, conf, http>>

\* GET /api/tools of the gateway, behind authenticate: part_004 lines 169-172
GwListTools(r) ==
    /\ refresh[r].pc = "idle"
    /\ refresh' = [refresh EXCEPT ![r] =
          [IdleRefresh EXCEPT !.who = "gateway", !.pc = "servers"]]
    /\ UNCHANGED <<daemonProcess, proc, start, stop, api, toolCache, backend, cfg, nm,
                   call, ws, rest, bin, conf, http>>

\* lines 171-172, 193-195: the list of servers arrives, or the answer is 500
GwServersDone(r, ok) ==
    /\ refresh[r].pc = "servers"
    /\ refresh[r].who = "gateway"
    /\ refresh' = [refresh EXCEPT ![r] = ServersStep(@, ok)]
    /\ UNCHANGED <<daemonProcess, proc, start, stop, api, toolCache, backend, cfg, nm,
                   call, ws, rest, bin, conf, http>>

\* lines 175-190: one step of the loop; the entries carry fullName
GwToolsDone(r, ok) ==
    /\ refresh[r].pc = "tools"
    /\ refresh[r].who = "gateway"
    /\ refresh' = [refresh EXCEPT ![r] = LoopStep(@, ok)]
    /\ UNCHANGED <<daemonProcess, proc, start, stop, api, toolCache, backend, cfg, nm,
                   call, ws, rest, bin, conf, http>>

InitBridge ==
    /\ SupIdle
    /\ GatewayIdle
    /\ nm = <<>>
    /\ cfg \in Configs
    /\ toolCache = EmptyMap
    /\ backend = [servers |-> <<SrvA, SrvB>>,
                  tools |-> [sv \in {SrvA, SrvB} |-> <<ToolT>>]]
    /\ refresh = [r \in Refreshes |-> IdleRefresh]

NextBridge ==
    \/ \E r \in Refreshes : RefreshCall(r)
    \/ \E r \in Refreshes, ok \in BOOLEAN : FetchServersDone(r, ok)
    \/ \E r \in Refreshes, ok \in BOOLEAN : FetchToolsDone(r, ok)
    \/ \E r \in Refreshes : RefreshReturn(r)
    \/ \E r \in Refreshes, targetServer \in {NoTarget, TargetA} : HttpListTools(r, targetServer)
    \/ \E r \in Refreshes, ok \in BOOLEAN : HttpServersDone(r, ok)
    \/ \E r \in Refreshes, ok \in BOOLEAN : HttpToolsDone(r, ok)
    \/ \E r \in Refreshes : GwListTools(r)
    \/ \E r \in Refreshes, ok \in BOOLEAN : GwServersDone(r, ok)
    \/ \E r \in Refreshes, ok \in BOOLEAN : GwToolsDone(r, ok)
    \/ BackendChange

SpecBridge == InitBridge /\ [][NextBridge]_vars

\* C9: a refresh either replaces the whole toolCache by the catalog it fetched,
\* or, when one of its fetches failed, leaves the cache as it was: the cache
\* changes only at the end of a refresh without a failed fetch, and then holds
\* exactly what that refresh fetched.
C9_AtomicRefresh ==
    [][toolCache' # toolCache
          => \E r \in Refreshes :
                /\ refresh[r].pc # "done" /\ refresh'[r].pc = "done"
                /\ ~refresh'[r].failed
                /\ toolCache' = refresh'[r].fetched]_vars

\* the names in a listing, and the names a listing of the fetched tools has
\* when every tool of every server in svs is given its namespaced or raw name
Listed(rf) == {rf.allTools[i] : i \in 1..Len(rf.allTools)}
Namespaced(sv, t) == sv \o Delim \o t
NamesOf(rf, svs, namespaced) ==
    UNION {{IF namespaced THEN Namespaced(sv, rf.fetched[sv][i]) ELSE rf.fetched[sv][i] :
               i \in 1..Len(rf.fetched[sv])} : sv \in svs}

\* a listing over all servers: the bridge in Unified mode, the endpoint without
\* a server in the URL, GET /api/tools of the gateway
UnifiedListing(rf) ==
    \/ rf.who = "bridge" /\ cfg.mode = "unified"
    \/ rf.who = "endpoint" /\ rf.target = NoTarget
    \/ rf.who = "gateway"

\* C14: in Unified mode the listing names every tool of every server the daemon
\* returned server + '__' + rawName; in Individual mode it lists the tools of the
\* target server only, under the raw name when namespacing is disabled and under
\* the namespaced name when it is enabled.
C14_ListingNames ==
    \A r \in Refreshes :
        LET rf == refresh[r] IN
        (rf.pc = "done" /\ rf.who \in {"bridge", "endpoint"})
            => IF UnifiedListing(rf)
               THEN Listed(rf) = NamesOf(rf, DOMAIN rf.fetched, TRUE)
               ELSE /\ DOMAIN rf.fetched \subseteq {rf.target}
                    /\ Listed(rf) =
                          IF rf.who = "bridge" /\ cfg.useNamespacing
                          THEN NamesOf(rf, DOMAIN rf.fetched, TRUE)
                          ELSE NamesOf(rf, DOMAIN rf.fetched, FALSE)

C14_Witness ==
    \E r1 \in Refreshes, r2 \in Refreshes :
        /\ refresh[r1].pc = "done" /\ refresh[r1].who = "bridge"
        /\ Len(refresh[r1].allTools) >= 2
        /\ refresh[r2].pc = "done" /\ refresh[r2].who = "endpoint"
        /\ refresh[r2].allTools # <<>>

\* C15: in a Unified-mode listing, when the fetch of the tools of a server fails
\* the listing still returns, with exactly the tools of the servers whose fetch
\* succeeded and none of the failed server: the failure of one server makes the
\* listing neither an error nor empty.
C15_PartialListing ==
    \A r \in Refreshes :
        LET rf == refresh[r] IN
        (rf.pc = "done" /\ UnifiedListing(rf) /\ rf.err # "servers")
            => /\ rf.err = "none"
               /\ Listed(rf) = NamesOf(rf, DOMAIN rf.fetched \ rf.lost, TRUE)
               /\ \A sv \in rf.lost, t \in {ToolT, ToolU} : Namespaced(sv, t) \notin Listed(rf)

C15_Witness ==
    \E r \in Refreshes :
        /\ refresh[r].pc = "done" /\ refresh[r].who = "gateway"
        /\ refresh[r].lost # {}
        /\ refresh[r].allTools # <<>>

----------------------------------------------------------------------------
(* tools/call: the handler of the bridge and callTool of the endpoint *)

NumToolCalls == 2

\* values of params.arguments: absent, null, or an object
ArgsValues == {"undefined", "null", "object"}

\* args || {}
ArgsOrEmpty(args) == IF args \in {"undefined", "null"} THEN "{}" ELSE args

\* what the daemon answers a POST .../call with status 200: a JSON value, with
\* what reading its property 'content' gives
ReplyData ==
    {[t |-> "string", v |-> "hello", content |-> "undefined"],
     [t |-> "string", v |-> "", content |-> "undefined"],
     [t |-> "object", v |-> "withBlocks", content |-> "array"],
     [t |-> "object", v |-> "withText", content |-> "string"],
     [t |-> "object", v |-> "withNull", content |-> "null"],
     [t |-> "object", v |-> "plain", content |-> "undefined"],
     [t |-> "number", v |-> "5", content |-> "undefined"],
     [t |-> "null", v |-> "null", content |-> "undefined"]}

NoData == [t |-> "none", v |-> "", content |-> "undefined"]

\* outcome of the POST: no connection, a status outside 2xx, or 200 with data
Replies ==
    {[status |-> "network", data |-> NoData], [status |-> "404", data |-> NoData],
     [status |-> "500", data |-> NoData]}
        \cup {[status |-> "200", data |-> d] : d \in ReplyData}

\* truthiness of the value of 'content'
Truthy(c) == c \in {"array", "string"}

\* the results of a handler: kind is "result" (a CallToolResult, or the result
\* member of a JSON-RPC response), "rpcerror" (the error member of a JSON-RPC
\* response) or "thrown" (an exception leaves the handler)
NoOutcome == [kind |-> "none", isError |-> FALSE, form |-> "", of |-> "", message |-> ""]
Content(form, of) ==
    [kind |-> "result", isError |-> FALSE, form |-> form, of |-> of, message |-> ""]
Throw(message) ==
    [kind |-> "thrown", isError |-> FALSE, form |-> "", of |-> "", message |-> message]

\* axios.post: rejects without a connection and for a status outside 2xx
AxiosError(reply) ==
    IF reply.status = "network" THEN "Network Error"
    ELSE "Request failed with status code"

\* part_002 lines 241-255: the result of the bridge for the data of a reply
BridgeFormat(result) ==
    IF result.t = "null" THEN Throw("Cannot read properties of null")
    ELSE IF Truthy(result.content) THEN Content("content", result.v)
    ELSE IF result.t = "string" THEN Content("text", result.v)
    ELSE Content("json", result.v)

\* a handler whose try does not cover the failing statement
BridgeCatchMissing(e) == e

\* part_002 lines 256-268: the catch of the handler
BridgeCatch(e) ==
    [kind |-> "result", isError |-> TRUE, form |-> "text", of |-> "Error: ",
     message |-> e.message]

\* mcp-http-endpoint.ts lines 266-281: the result of callTool for the data
HttpFormat(data) ==
    IF data.t = "string" THEN Content("text", data.v)
    ELSE IF data.t = "null" THEN Throw("Cannot read properties of null")
    ELSE IF Truthy(data.content) THEN Content("data", data.v)
    ELSE Content("json", data.v)

\* lines 282-284 (callTool rethrows) and 181-190 (handleMCPRequest answers)
HttpCatch(e) ==
    [kind |-> "rpcerror", isError |-> FALSE, form |-> "-32603",
     of |-> "Failed to call tool: ", message |-> e.message]

IdleCall ==
    [pc |-> "idle", who |-> "", target |-> NoTarget, name |-> <<>>, args |-> "undefined",
     posts |-> <<>>, reply |-> [status |-> "none", data |-> NoData],
     failure |-> "none", result |-> NoOutcome, answered |-> 0, failed |-> 0]

\* the catch an exception reaches, and the formatting of a reply, per handler
Catch(who, e) == IF who = "bridge" THEN BridgeCatch(e) ELSE HttpCatch(e)
Format(who, data) == IF who = "bridge" THEN BridgeFormat(data) ELSE HttpFormat(data)

\* the request begins: the name is decoded; a decoded name is POSTed, an
\* exception of the decoding goes to the catch
Dispatch(who, target, name, args, parsed) ==
    /\ call.pc = "idle"
    /\ call.answered < NumToolCalls
    /\ call' = [call EXCEPT
          !.who = who, !.target = target, !.name = name, !.args = args,
          !.reply = [status |-> "none", data |-> NoData],
          !.pc = IF parsed.ok THEN "posted" ELSE "answered",
          !.posts = IF parsed.ok
                    THEN <<[server |-> parsed.server, tool |-> parsed.tool,
                            body |-> ArgsOrEmpty(args)]>>
                    ELSE <<>>,
          !.failure = IF parsed.ok THEN "none" ELSE "decode",
          !.result = IF parsed.ok THEN NoOutcome
                     ELSE Catch(who, Throw("Invalid tool name format"))]
    /\ UNCHANGED <<daemonProcess, proc, start, stop, api, toolCache, backend, refresh, cfg,
                   nm, ws, rest, bin, conf, http>>

\* CallToolRequestSchema handler of the bridge, lines 223-239
BridgeCallTool(name, args) ==
    Dispatch("bridge", cfg.targetServer, name, args, ParseToolName(name, cfg))

\* handleMCPRequest 'tools/call' and callTool up to the POST, lines 149-150, 242-264
HttpCallTool(name, args, targetServer) ==
    Dispatch("endpoint", targetServer, name, args, HttpParseToolName(name, targetServer))

\* why a request failed, for a reply of the daemon and the formatted result
FailureOf(reply, formatted) ==
    IF reply.status = "network" THEN "network"
    ELSE IF reply.status # "200" THEN "backend"
    ELSE IF formatted.kind = "thrown" THEN "format"
    ELSE "none"

\* the POST completes: the reply is formatted inside the try; an exception of
\* axios or of the formatting goes to the catch
Complete(who, reply) ==
    /\ call.pc = "posted"
    /\ call.who = who
    /\ LET formatted == IF reply.status = "200" THEN Format(who, reply.data)
                        ELSE Throw(AxiosError(reply)) IN
       call' = [call EXCEPT
          !.pc = "answered",
          !.reply = reply,
          !.failure = FailureOf(reply, formatted),
          !.result = IF formatted.kind = "thrown" THEN Catch(who, formatted) ELSE formatted]
    /\ UNCHANGED <<daemonProcess, proc, start, stop, api, toolCache, backend, refresh, cfg,
                   nm, ws, rest, bin, conf, http>>

\* the bridge's handler after the await of axios.post, lines 241-268
BridgeReply(reply) == Complete("bridge", reply)

\* callTool after the await of axios.post, and handleMCPRequest's return
HttpReply(reply) == Complete("endpoint", reply)

\* the response is written; the session takes the next request. An exception
\* that left the handler leaves the request without an answer.
CallReturn ==
    /\ call.pc = "answered"
    /\ call.result.kind # "thrown"
    /\ call' = [call EXCEPT !.pc = "idle",
                            !.answered = @ + 1,
                            !.failed = IF call.failure # "none" THEN @ + 1 ELSE @]
    /\ UNCHANGED <<daemonProcess, proc, start, stop, api, toolCache, backend, refresh, cfg,
                   nm, ws, rest, bin, conf, http>>

InitCall ==
    /\ SupIdle
    /\ toolCache = <<>>
    /\ backend = <<>>
    /\ refresh = <<>>
    /\ nm = <<>>
    /\ ws = <<>>
    /\ rest = <<>>
    /\ cfg \in Configs
    /\ call = IdleCall

NextCall ==
    \/ \E name \in Names \ {<<>>}, args \in ArgsValues : BridgeCallTool(name, args)
    \/ \E name \in Names \ {<<>>}, args \in ArgsValues, targetServer \in {NoTarget, TargetA} :
          HttpCallTool(name, args, targetServer)
    \/ \E reply \in Replies : BridgeReply(reply)
    \/ \E reply \in Replies : HttpReply(reply)
    \/ CallReturn

SpecCall == InitCall /\ [][NextCall]_vars

\* the configuration is Individual mode with namespacing disabled: the bridge
\* with --server and --no-namespace, the endpoint with a server in the URL
FixedTarget ==
    \/ call.who = "bridge" /\ cfg.mode = "individual" /\ ~cfg.useNamespacing
    \/ call.who = "endpoint" /\ call.target # NoTarget

C13_MultiDelimFails ==
    (call.pc \in {"posted", "answered"} /\ ~FixedTarget /\ DelimCount(call.name) > 1)
        => /\ call.failure = "decode"
           /\ call.posts = <<>>
           /\ call.result.message = "Invalid tool name format"

\* C16: a tools/call request never throws out of its handler and never ends the
\* session: for every failure (a name that cannot be decoded, an unknown server,
\* a network error, an error response of the daemon) the bridge returns a result
\* with isError = true and a message, the endpoint returns a JSON-RPC error
\* object, and the session goes on to take the next request.
C16_ErrorsAreResults ==
    /\ call.result.kind # "thrown"
    /\ (call.pc = "answered" /\ call.failure # "none")
          => /\ call.who = "bridge"
                   => /\ call.result.kind = "result"
                      /\ call.result.isError
                      /\ call.result.message # ""
             /\ call.who = "endpoint"
                   => /\ call.result.kind = "rpcerror"
                      /\ call.result.message # ""
             /\ ENABLED CallReturn

C16_Witness ==
    /\ call.pc = "answered"
    /\ call.failed >= 1
    /\ call.failure \in {"decode", "network", "backend"}
    /\ call.who = "endpoint"

\* C17: a tool call the daemon answers forwards exactly one POST, for the decoded
\* pair, with body {arguments: args} ({} when args is absent), and normalizes the
\* reply: a reply with a content array is passed through, a bare string becomes
\* one text block, any other value becomes one text block of its pretty-printed
\* JSON.
C17_ForwardAndNormalize ==
    (call.pc = "answered" /\ call.reply.status = "200")
        => LET data == call.reply.data IN
           /\ Len(call.posts) = 1
           /\ call.posts[1].body
                 = (IF call.args \in {"undefined", "null"} THEN "{}" ELSE call.args)
           /\ call.result.kind = "result"
           /\ ~call.result.isError
           /\ call.result.of = data.v
           /\ IF data.t = "object" /\ data.content = "array"
              THEN call.result.form \in {"content", "data"}
              ELSE IF data.t = "string" THEN call.result.form = "text"
              ELSE call.result.form = "json"

----------------------------------------------------------------------------
(* HTTP gateway: the WebSocket connection *)

NumWsMsgs == 2
WsMsgs == 1..NumWsMsgs

\* this.apiKeys = new Set([API_KEY]); "K" is the configured key, "X" another
\* key, "" no key
ApiKeys == {"K"}
KeyValues == {"", "K", "X"}

\* a check of presence only
KeyAcceptedAny(apiKey) == apiKey # ""

\* apiKey && this.apiKeys.has(apiKey)
KeyAccepted(apiKey) == apiKey # "" /\ apiKey \in ApiKeys

\* inbound messages: text that is no JSON, or an object with a type, and with
\* or without apiKey and id
Malformed == [type |-> "malformed", apiKey |-> "", id |-> "undefined"]
WsMessages ==
    {Malformed}
        \cup [type : {"auth"}, apiKey : KeyValues, id : {"undefined", "7"}]
        \cup [type : {"servers.list", "tools.list", "tools.call", "ping"},
              apiKey : {""}, id : {"undefined", "7"}]

NoReply == [type |-> "none", id |-> "undefined"]
IdleMsg == [pc |-> "none", data |-> Malformed, unauth |-> FALSE, reply |-> NoReply,
            calls |-> 0]

\* ws.send of the message with this type; id is the id member, when it has one
Send(type, id) == [type |-> type, id |-> id]

\* wss.on('connection'): lines 277-286
WsConnect(apiKey) ==
    /\ ws.conn = "none"
    /\ ws' = [ws EXCEPT !.conn = "open", !.authenticated = KeyAccepted(apiKey)]
    /\ UNCHANGED <<daemonProcess, proc, start, stop, api, toolCache, backend, refresh, cfg,
                   nm, call, rest, bin, conf, http>>

\* ws.on('message'): the handler up to its return or its first await,
\* lines 288-343; JSON.parse of a malformed message throws into the catch,
\* lines 344-349
WsMessage(m, data) ==
    /\ ws.conn = "open"
    /\ ws.msgs[m].pc = "none"
    /\ \A k \in WsMsgs : k < m => ws.msgs[k].pc # "none"
    /\ LET msg == [IdleMsg EXCEPT !.data = data, !.unauth = ~ws.authenticated] IN
       IF data.type = "malformed"
       THEN ws' = [ws EXCEPT !.msgs[m] =
                      [msg EXCEPT !.pc = "done", !.reply = Send("error", "undefined")]]
       ELSE IF ~ws.authenticated
       THEN IF data.type = "auth" /\ KeyAccepted(data.apiKey)
            THEN ws' = [ws EXCEPT !.authenticated = TRUE,
                                  !.msgs[m] = [msg EXCEPT !.pc = "done",
                                                          !.reply = Send("auth", "undefined")]]
            ELSE ws' = [ws EXCEPT !.conn = "closed",
                                  !.msgs[m] = [msg EXCEPT !.pc = "done",
                                                          !.reply = Send("error", "undefined")]]
       ELSE IF data.type \in {"servers.list", "tools.list", "tools.call"}
       THEN ws' = [ws EXCEPT !.msgs[m] = [msg EXCEPT !.pc = "await", !.calls = 1]]
       ELSE ws' = [ws EXCEPT !.msgs[m] =
                      [msg EXCEPT !.pc = "done", !.reply = Send("error", "undefined")]]
    /\ UNCHANGED <<daemonProcess, proc, start, stop, api, toolCache, backend, refresh, cfg,
                   nm, call, rest, bin, conf, http>>

\* the reply of the three requests, lines 309-312, 319-323, 331-335
WsReply(data) ==
    IF data.type = "tools.call" THEN Send("tools.result", data.id)
    ELSE Send(data.type, "undefined")

\* the axios call of the handler completes: the reply is sent, or the catch
\* sends the error, lines 344-349
WsAxiosDone(m, ok) ==
    /\ ws.msgs[m].pc = "await"
    /\ ws' = [ws EXCEPT !.msgs[m].pc = "done",
                        !.msgs[m].reply = IF ok THEN WsReply(ws.msgs[m].data)
                                          ELSE Send("error", "undefined")]
    /\ UNCHANGED <<daemonProcess, proc, start, stop, api, toolCache, backend, refresh, cfg,
                   nm, call, rest, bin, conf, http>>

InitWs ==
    /\ SupIdle
    /\ BridgeIdle
    /\ call = <<>>
    /\ rest = <<>>
    /\ ws = [conn |-> "none", authenticated |-> FALSE, msgs |-> [m \in WsMsgs |-> IdleMsg]]

NextWs ==
    \/ \E apiKey \in KeyValues : WsConnect(apiKey)
    \/ \E m \in WsMsgs, data \in WsMessages : WsMessage(m, data)
    \/ \E m \in WsMsgs, ok \in BOOLEAN : WsAxiosDone(m, ok)

SpecWs == InitWs /\ [][NextWs]_vars

\* C18: on a connection that is not authenticated, every message other than an
\* auth message with a key of the credential set (another type, an auth message
\* with a wrong or missing key, a malformed message) is answered with an error,
\* the connection is closed, and no call to the daemon is made for it.
C18_UnauthRejected ==
    \A m \in WsMsgs :
        LET msg == ws.msgs[m] IN
        (msg.pc # "none" /\ msg.unauth
            /\ ~(msg.data.type = "auth" /\ msg.data.apiKey \in ApiKeys))
            => /\ msg.reply.type = "error"
               /\ ws.conn = "closed"
               /\ msg.calls = 0

\* C19: every reply to an authenticated message that carried an id carries the
\* same id: tools.call results, servers.list and tools.list replies, and error
\* replies.
C19_ReplyEchoesId ==
    \A m \in WsMsgs :
        LET msg == ws.msgs[m] IN
        (msg.pc = "done" /\ ~msg.unauth /\ msg.data.id # "undefined")
            => msg.reply.id = msg.data.id

----------------------------------------------------------------------------
(* HTTP gateway: the REST routes *)

\* rateLimit({ windowMs: 60000, max: 100 }) on /api/
RateLimitMax == 100

\* the routes that call the daemon; all of them are registered with
\* this.authenticate
DaemonRoutes ==
    {"GET /api/servers", "GET /api/servers/:name", "GET /api/servers/:name/tools",
     "GET /api/tools", "POST /api/tools/call", "POST /api/servers/:server/tools/:tool/call",
     "POST /api/mcp"}

\* the routes registered without this.authenticate
OpenRoutes == {"GET /health", "GET /api"}

\* requests: a registered route, or a path no route matches
Routes == DaemonRoutes \cup OpenRoutes \cup {"GET /api/other", "GET /other"}

\* app.use('/api/', limiter)
RateLimited(route) == route \notin {"GET /health", "GET /other"}

\* the routes that answer 400 to an incomplete request before any daemon call
Validating == {"POST /api/tools/call", "POST /api/mcp"}

\* the Authorization header, as words: absent, 'Bearer <key>', or a bare key
AuthValues == {<<>>, <<"Bearer ", "K">>, <<"Bearer ", "X">>, <<"K">>, <<"X">>}

\* req.headers['authorization']?.replace('Bearer ', '')
ReplaceBearer(authorization) ==
    LET rest_ == IF authorization # <<>> /\ Head(authorization) = "Bearer "
                 THEN Tail(authorization) ELSE authorization IN
    IF rest_ = <<>> THEN "" ELSE Head(rest_)

\* lines 86-88: the first of the three that is not empty
SelectedKey(xApiKey, authorization, queryKey) ==
    IF xApiKey # "" THEN xApiKey
    ELSE IF ReplaceBearer(authorization) # "" THEN ReplaceBearer(authorization)
    ELSE queryKey

\* authenticate, lines 85-100: TRUE when it calls next()
Authenticate(xApiKey, authorization, queryKey) ==
    KeyAccepted(SelectedKey(xApiKey, authorization, queryKey))

IdleReq ==
    [pc |-> "idle", route |-> "", xApiKey |-> "", authorization |-> <<>>, queryKey |-> "",
     status |-> 0, calls |-> 0, limited |-> FALSE]

\* the status of a request that reaches no await
Immediate(route, authed, complete, limited) ==
    IF limited THEN 429
    ELSE IF route \in OpenRoutes THEN 200
    ELSE IF route \notin DaemonRoutes THEN 404
    ELSE IF ~authed THEN 401
    ELSE IF route \in Validating /\ ~complete THEN 400
    ELSE 0

\* a request arrives: the limiter, the route, authenticate, and the handler up
\* to its first request to the daemon
RestRequest(route, xApiKey, authorization, queryKey, complete) ==
    /\ rest.req.pc = "idle"
    /\ LET hits == IF RateLimited(route) /\ rest.hits <= RateLimitMax
                   THEN rest.hits + 1 ELSE rest.hits
           limited == RateLimited(route) /\ hits > RateLimitMax
           status == Immediate(route, Authenticate(xApiKey, authorization, queryKey),
                               complete, limited) IN
       rest' = [hits |-> hits,
                req |-> [pc |-> IF status = 0 THEN "await" ELSE "done",
                         route |-> route, xApiKey |-> xApiKey,
                         authorization |-> authorization, queryKey |-> queryKey,
                         status |-> status, calls |-> IF status = 0 THEN 1 ELSE 0,
                         limited |-> limited]]
    /\ UNCHANGED <<daemonProcess, proc, start, stop, api, toolCache, backend, refresh, cfg,
                   nm, call, ws, bin, conf, http>>

\* the request to the daemon completes: 200 with its data, 404 when the server
\* is not in the list (GET /api/servers/:name), 500 from the catch
RestDaemonDone(outcome) ==
    /\ rest.req.pc = "await"
    /\ outcome = "missing" => rest.req.route = "GET /api/servers/:name"
    /\ rest' = [rest EXCEPT !.req.pc = "done",
                            !.req.status = IF outcome = "ok" THEN 200
                                           ELSE IF outcome = "missing" THEN 404 ELSE 500]
    /\ UNCHANGED <<daemonProcess, proc, start, stop, api, toolCache, backend, refresh, cfg,
                   nm, call, ws, bin, conf, http>>

\* the response is written; the next request may come
RestNext ==
    /\ rest.req.pc = "done"
    /\ rest' = [rest EXCEPT !.req = IdleReq]
    /\ UNCHANGED <<daemonProcess, proc, start, stop, api, toolCache, backend, refresh, cfg,
                   nm, call, ws, bin, conf, http>>

\* the window of the limiter ends
WindowReset ==
    /\ rest.hits > 0
    /\ rest.req.pc = "idle"
    /\ rest' = [rest EXCEPT !.hits = 0]
    /\ UNCHANGED <<daemonProcess, proc, start, stop, api, toolCache, backend, refresh, cfg,
                   nm, call, ws, bin, conf, http>>

InitRest ==
    /\ SupIdle
    /\ BridgeIdle
    /\ call = <<>>
    /\ ws = <<>>
    /\ rest = [hits |-> 0, req |-> IdleReq]

NextRest ==
    \/ \E route \in Routes, xApiKey \in KeyValues, authorization \in AuthValues,
          queryKey \in KeyValues, complete \in BOOLEAN :
             RestRequest(route, xApiKey, authorization, queryKey, complete)
    \/ \E outcome \in {"ok", "missing", "fail"} : RestDaemonDone(outcome)
    \/ RestNext
    \/ WindowReset

SpecRest == InitRest /\ [][NextRest]_vars

\* the request presents no key of the credential set in the X-API-Key header,
\* in the Authorization header or in the apiKey query parameter
NoKeyPresented ==
    /\ rest.req.xApiKey \notin ApiKeys
    /\ ReplaceBearer(rest.req.authorization) \notin ApiKeys
    /\ rest.req.queryKey \notin ApiKeys

----------------------------------------------------------------------------
(* Outbound HTTP requests to the daemon *)

NumRequests == 2
Requests == 1..NumRequests

Hung == -3           \* a daemon accepts the connection and never answers

ApiClientTimeout == 10000
NoTimeout == 0       \* axios default: the request is never aborted

\* who sends requests to the daemon, and for what
ClientOps ==
    {<<"supervisor", "getStatus">>,
     <<"bridge", "tools/list">>, <<"bridge", "tools/call">>,
     <<"endpoint", "tools/list">>, <<"endpoint", "tools/call">>,
     <<"gateway", "tools/list">>, <<"gateway", "tools/call">>}

\* the timeout of the request configuration: axios.create({ timeout: 10000 }) in
\* the supervisor; the bridge, the endpoint and the gateway pass headers only
AxiosTimeout(who) == IF who = "supervisor" THEN ApiClientTimeout ELSE NoTimeout

IdleHttp == [pc |-> "idle", who |-> "", op |-> "", timeout |-> NoTimeout,
             result |-> "none"]

\* axios.get / axios.post: the request is sent
HttpSend(k, who, op) ==
    /\ http[k].pc = "idle"
    /\ http' = [http EXCEPT ![k] = [pc |-> "inflight", who |-> who, op |-> op,
                                    timeout |-> AxiosTimeout(who), result |-> "none"]]
    /\ UNCHANGED <<daemonProcess, proc, start, stop, api, toolCache, backend, refresh, cfg, nm,
                   call, ws, rest, bin, conf>>

\* the daemon answers: the await continues with the response
HttpAnswer(k) ==
    /\ http[k].pc = "inflight"
    /\ api = Foreign
    /\ http' = [http EXCEPT ![k].pc = "done", ![k].result = "response"]
    /\ UNCHANGED <<daemonProcess, proc, start, stop, api, toolCache, backend, refresh, cfg, nm,
                   call, ws, rest, bin, conf>>

\* nothing listens on the port: the connection is refused and the catch block
\* of the caller makes an empty list or an error result of it
HttpRefused(k) ==
    /\ http[k].pc = "inflight"
    /\ api = NoDaemon
    /\ http' = [http EXCEPT ![k].pc = "done", ![k].result = "error"]
    /\ UNCHANGED <<daemonProcess, proc, start, stop, api, toolCache, backend, refresh, cfg, nm,
                   call, ws, rest, bin, conf>>

\* the timer of a request that has a timeout fires: axios aborts the request
HttpTimeout(k) ==
    /\ http[k].pc = "inflight"
    /\ http[k].timeout > NoTimeout
    /\ http' = [http EXCEPT ![k].pc = "done", ![k].result = "error"]
    /\ UNCHANGED <<daemonProcess, proc, start, stop, api, toolCache, backend, refresh, cfg, nm,
                   call, ws, rest, bin, conf>>

\* the daemon stops answering (a backend server blocks it), for good
DaemonHangs ==
    /\ api = Foreign
    /\ api' = Hung
    /\ UNCHANGED <<daemonProcess, proc, start, stop, toolCache, backend, refresh, cfg, nm,
                   call, ws, rest, bin, conf, http>>

InitHttp ==
    /\ daemonProcess = Null
    /\ proc = [c \in Calls |-> NoProc]
    /\ start = [c \in Calls |-> IdleStart]
    /\ stop = [s \in Stops |-> IdleStop]
    /\ api \in {NoDaemon, Foreign, Hung}
    /\ BridgeIdle
    /\ GatewayIdle
    /\ bin = InstalledBin
    /\ conf = <<>>
    /\ http = [k \in Requests |-> IdleHttp]

NextHttp ==
    \/ \E k \in Requests, c \in ClientOps : HttpSend(k, c[1], c[2])
    \/ \E k \in Requests : HttpAnswer(k)
    \/ \E k \in Requests : HttpRefused(k)
    \/ \E k \in Requests : HttpTimeout(k)
    \/ DaemonHangs

SpecHttp == InitHttp /\ [][NextHttp]_vars

\* C21: every request the bridge, the endpoint or the gateway has in flight to
\* the daemon is bounded: whatever the daemon does, a step that completes the
\* request (an answer, a refused connection, the request's timeout) is
\* possible, so that tools/list or tools/call does not block forever on a
\* daemon that never answers.
C21_BoundedCalls ==
    \A k \in Requests :
        (http[k].pc = "inflight" /\ http[k].who \in {"bridge", "endpoint", "gateway"})
            => ENABLED (HttpAnswer(k) \/ HttpRefused(k) \/ HttpTimeout(k))

====
